---- MODULE Spec2Model ----
(***************************************************************************)
(* Model of src/solution.py (class NCERTExtractor and main): the chunker,  *)
(* the JSON response parser, the extraction and planner transforms and the *)
(* orchestration loop.                                                     *)
(*                                                                         *)
(* Texts are sequences of one-character strings.  In the parser part a     *)
(* run of letters or digits (a word such as json, topics, 1) is carried    *)
(* as one symbol; punctuation, quotes, backticks and whitespace are always *)
(* single symbols, so the fence replacement, the regular expressions and   *)
(* the JSON grammar act on them exactly as on characters.                  *)
(***************************************************************************)
EXTENDS Integers, Sequences, FiniteSets, TLC

VARIABLES
  text, max_chars, chunks, cpc,           \* one call of chunk_text
  origin, response_text, parsed, ppc,     \* one call of clean_json_response
  gen, extracted, epc,                    \* one call of extract_content_with_prompt
  pc, srcIdx, srcChunks, chunkIdx,        \* main / process_all_chapters position
  all_extracted_data, planGen, planner_data,
  succeeded, log                          \* history: parsed values, external calls

chunkVars == <<text, max_chars, chunks, cpc>>
parseVars == <<origin, response_text, parsed, ppc>>
extractVars == <<gen, extracted, epc>>
runVars ==
  <<pc, srcIdx, srcChunks, chunkIdx, all_extracted_data, planGen, planner_data, succeeded, log>>
vars == <<chunkVars, parseVars, extractVars, runVars>>

----------------------------------------------------------------------------
(* Bounds *)
MaxTextLen == 6
MaxBudget == 4
(* number of source documents of a run (main lists four) *)
NumSources == 2
(* the chunk budget of a run, scaled down from the default max_chars=6000 *)
(* of line 43 so that short texts give several chunks                     *)
RunMaxChars == 2

(* Characters of the chunker's input texts. *)
Alphabet == {"a", "b", " ", "\n"}

Texts == UNION {[1..n -> Alphabet] : n \in 0..MaxTextLen}

----------------------------------------------------------------------------
(* str helpers *)

IsSpace(c) == c \in {" ", "\n", "\t"}

RECURSIVE lstrip(_)
lstrip(s) == IF s # <<>> /\ IsSpace(Head(s)) THEN lstrip(Tail(s)) ELSE s

RECURSIVE rstrip(_)
rstrip(s) ==
  IF s # <<>> /\ IsSpace(s[Len(s)]) THEN rstrip(SubSeq(s, 1, Len(s) - 1)) ELSE s

strip(s) == rstrip(lstrip(s))

(* str.split() without arguments: maximal runs of non-whitespace. *)
RECURSIVE SplitFrom(_, _, _, _)
SplitFrom(s, i, cur, acc) ==
  IF i > Len(s) THEN (IF cur = <<>> THEN acc ELSE Append(acc, cur))
  ELSE IF IsSpace(s[i])
       THEN SplitFrom(s, i + 1, <<>>, IF cur = <<>> THEN acc ELSE Append(acc, cur))
       ELSE SplitFrom(s, i + 1, Append(cur, s[i]), acc)

split(s) == SplitFrom(s, 1, <<>>, <<>>)

----------------------------------------------------------------------------
(* chunk_text *)

FitsIgnoringWord(current_chunk, word, budget) == Len(current_chunk) < budget

(* line 53: len(current_chunk + word) < max_chars *)
Fits(current_chunk, word, budget) == Len(current_chunk \o word) < budget

ExtendKeepingOld(current_chunk, word) == current_chunk \o word \o <<" ">>

(* line 58: current_chunk = word + " " *)
StartChunk(current_chunk, word) == word \o <<" ">>

(* lines 56-57: append the stripped buffer when it is non-empty *)
Flush(chunkList, current_chunk) ==
  IF strip(current_chunk) # <<>> THEN Append(chunkList, strip(current_chunk))
  ELSE chunkList

FinalFlushDropped(chunkList, current_chunk) == chunkList

(* lines 60-61: the buffer left after the loop is flushed the same way *)
FinalFlush(chunkList, current_chunk) ==
  IF strip(current_chunk) # <<>> THEN Append(chunkList, strip(current_chunk))
  ELSE chunkList

(* lines 52-58: the loop over the words *)
RECURSIVE ChunkWords(_, _, _, _, _)
ChunkWords(words, i, current_chunk, chunkList, budget) ==
  IF i > Len(words) THEN [current_chunk |-> current_chunk, chunks |-> chunkList]
  ELSE IF Fits(current_chunk, words[i], budget)
       THEN ChunkWords(words, i + 1, current_chunk \o words[i] \o <<" ">>,
                       chunkList, budget)
       ELSE ChunkWords(words, i + 1, StartChunk(current_chunk, words[i]),
                       Flush(chunkList, current_chunk), budget)

chunk_text(t, budget) ==
  IF strip(t) = <<>> THEN <<>>
  ELSE LET r == ChunkWords(split(t), 1, <<>>, <<>>, budget)
       IN FinalFlush(r.chunks, r.current_chunk)

----------------------------------------------------------------------------
(* JSON values as json.loads builds them.  Every value is a record of the  *)
(* same shape: k is the kind, s the symbols of a string or the word of a   *)
(* number, keys and items the members of a dict (items alone for a list).  *)

JV(k, s, keys, items) == [k |-> k, s |-> s, keys |-> keys, items |-> items]

None == JV("null", <<>>, <<>>, <<>>)
JTrue == JV("true", <<>>, <<>>, <<>>)
JFalse == JV("false", <<>>, <<>>, <<>>)
JNum(w) == JV("num", <<w>>, <<>>, <<>>)
JStr(s) == JV("str", s, <<>>, <<>>)
JArr(items) == JV("arr", <<>>, <<>>, items)
JObj(keys, items) == JV("obj", <<>>, keys, items)

NumberWords == {"0", "1", "2"}

(* Python truthiness, as used by 'if extracted:' and 'if not extracted_data' *)
Truthy(v) ==
  CASE v.k = "null" -> FALSE
    [] v.k = "false" -> FALSE
    [] v.k = "true" -> TRUE
    [] v.k = "num" -> v.s # <<"0">>
    [] v.k = "str" -> v.s # <<>>
    [] v.k = "arr" -> v.items # <<>>
    [] v.k = "obj" -> v.keys # <<>>

(* dict item assignment: a repeated key keeps its place and takes the new value *)
DictSet(d, key, val) ==
  IF \E n \in 1..Len(d.keys) : d.keys[n] = key
  THEN LET n == CHOOSE n \in 1..Len(d.keys) : d.keys[n] = key
       IN JObj(d.keys, [d.items EXCEPT ![n] = val])
  ELSE JObj(Append(d.keys, key), Append(d.items, val))

(* dict.get(key, default) *)
DictGet(d, key, default) ==
  IF \E n \in 1..Len(d.keys) : d.keys[n] = key
  THEN d.items[CHOOSE n \in 1..Len(d.keys) : d.keys[n] = key]
  ELSE default

----------------------------------------------------------------------------
(* json.loads: a strict recursive-descent decoder *)

RECURSIVE SkipWs(_, _)
SkipWs(t, i) == IF i <= Len(t) /\ IsSpace(t[i]) THEN SkipWs(t, i + 1) ELSE i

DecodeError == [ok |-> FALSE, val |-> None, pos |-> 0]
Decoded(v, pos) == [ok |-> TRUE, val |-> v, pos |-> pos]

(* position of the first c at or after i, or 0 *)
RECURSIVE IndexFrom(_, _, _)
IndexFrom(t, c, i) ==
  IF i > Len(t) THEN 0 ELSE IF t[i] = c THEN i ELSE IndexFrom(t, c, i + 1)

(* t[i] is the opening quote; control characters are not allowed inside *)
ParseString(t, i) ==
  LET close == IndexFrom(t, "\"", i + 1)
  IN IF close = 0 THEN DecodeError
     ELSE IF \E n \in (i + 1)..(close - 1) : t[n] \in {"\n", "\t"} THEN DecodeError
     ELSE Decoded(JStr(SubSeq(t, i + 1, close - 1)), close + 1)

RECURSIVE ParseValue(_, _), ParseElements(_, _, _), ParseMembers(_, _, _)

ParseValue(t, i0) ==
  LET i == SkipWs(t, i0)
  IN IF i > Len(t) THEN DecodeError
     ELSE IF t[i] = "{"
       THEN LET j == SkipWs(t, i + 1)
            IN IF j <= Len(t) /\ t[j] = "}" THEN Decoded(JObj(<<>>, <<>>), j + 1)
               ELSE ParseMembers(t, j, JObj(<<>>, <<>>))
     ELSE IF t[i] = "["
       THEN LET j == SkipWs(t, i + 1)
            IN IF j <= Len(t) /\ t[j] = "]" THEN Decoded(JArr(<<>>), j + 1)
               ELSE ParseElements(t, j, <<>>)
     ELSE IF t[i] = "\"" THEN ParseString(t, i)
     ELSE IF t[i] = "null" THEN Decoded(None, i + 1)
     ELSE IF t[i] = "true" THEN Decoded(JTrue, i + 1)
     ELSE IF t[i] = "false" THEN Decoded(JFalse, i + 1)
     ELSE IF t[i] \in NumberWords THEN Decoded(JNum(t[i]), i + 1)
     ELSE DecodeError

ParseElements(t, i, acc) ==
  LET r == ParseValue(t, i)
  IN IF ~r.ok THEN DecodeError
     ELSE LET j == SkipWs(t, r.pos)
          IN IF j > Len(t) THEN DecodeError
             ELSE IF t[j] = "]" THEN Decoded(JArr(Append(acc, r.val)), j + 1)
             ELSE IF t[j] = "," THEN ParseElements(t, j + 1, Append(acc, r.val))
             ELSE DecodeError

ParseMembers(t, i0, d) ==
  LET i == SkipWs(t, i0)
  IN IF i > Len(t) \/ t[i] # "\"" THEN DecodeError
     ELSE LET key == ParseString(t, i)
          IN IF ~key.ok THEN DecodeError
             ELSE LET c == SkipWs(t, key.pos)
                  IN IF c > Len(t) \/ t[c] # ":" THEN DecodeError
                     ELSE LET r == ParseValue(t, c + 1)
                          IN IF ~r.ok THEN DecodeError
                             ELSE LET j == SkipWs(t, r.pos)
                                      d2 == DictSet(d, key.val.s, r.val)
                                  IN IF j > Len(t) THEN DecodeError
                                     ELSE IF t[j] = "}" THEN Decoded(d2, j + 1)
                                     ELSE IF t[j] = "," THEN ParseMembers(t, j + 1, d2)
                                     ELSE DecodeError

(* json.loads(t): one value, nothing but whitespace after it *)
json_loads(t) ==
  LET r == ParseValue(t, 1)
  IN IF r.ok /\ SkipWs(t, r.pos) > Len(t) THEN [ok |-> TRUE, val |-> r.val]
     ELSE [ok |-> FALSE, val |-> None]

(* json.dumps(v): the text of a value, with ", " and ": " as separators *)
RECURSIVE json_dumps(_), DumpItems(_, _), DumpMembers(_, _)
json_dumps(v) ==
  CASE v.k = "null" -> <<"null">>
    [] v.k = "true" -> <<"true">>
    [] v.k = "false" -> <<"false">>
    [] v.k = "num" -> v.s
    [] v.k = "str" -> <<"\"">> \o v.s \o <<"\"">>
    [] v.k = "arr" -> <<"[">> \o DumpItems(v.items, 1) \o <<"]">>
    [] v.k = "obj" -> <<"{">> \o DumpMembers(v, 1) \o <<"}">>

DumpItems(items, n) ==
  IF n > Len(items) THEN <<>>
  ELSE (IF n > 1 THEN <<",", " ">> ELSE <<>>) \o json_dumps(items[n])
       \o DumpItems(items, n + 1)

DumpMembers(d, n) ==
  IF n > Len(d.keys) THEN <<>>
  ELSE (IF n > 1 THEN <<",", " ">> ELSE <<>>)
       \o <<"\"">> \o d.keys[n] \o <<"\"", ":", " ">> \o json_dumps(d.items[n])
       \o DumpMembers(d, n + 1)

----------------------------------------------------------------------------
(* clean_json_response *)

(* str.replace(pat, rep): left to right, non-overlapping *)
RECURSIVE Replace(_, _, _)
Replace(t, pat, rep) ==
  IF Len(t) < Len(pat) THEN t
  ELSE IF SubSeq(t, 1, Len(pat)) = pat
       THEN rep \o Replace(SubSeq(t, Len(pat) + 1, Len(t)), pat, rep)
       ELSE <<Head(t)>> \o Replace(Tail(t), pat, rep)

(* The backtick character, which a TLA+ string cannot hold. *)
Tick == "BACKTICK"

Fence6 == <<Tick, Tick, Tick, Tick, Tick, Tick>>
Fence3 == <<Tick, Tick, Tick>>

(* position of the last c at or before i, or 0 *)
RECURSIVE LastIndex(_, _, _)
LastIndex(t, c, i) ==
  IF i < 1 THEN 0 ELSE IF t[i] = c THEN i ELSE LastIndex(t, c, i - 1)

FindAllLazy(t, open, close) ==
  LET i == IndexFrom(t, open, 1)
      j == IF i = 0 THEN 0 ELSE IndexFrom(t, close, i + 1)
  IN IF i # 0 /\ j # 0 THEN <<SubSeq(t, i, j)>> ELSE <<>>

(* re.findall(open .* close, t, re.DOTALL): the greedy pattern matches once, *)
(* from the first open to the last close after it   , and nothing is left  *)
(* to match behind that.                                                     *)
FindAll(t, open, close) ==
  LET i == IndexFrom(t, open, 1)
      j == LastIndex(t, close, Len(t))
  IN IF i # 0 /\ j > i THEN <<SubSeq(t, i, j)>> ELSE <<>>

(* lines 76-79 and 81-82: object matches first, then array matches *)
Candidates(t) == FindAll(t, "{", "}") \o FindAll(t, "[", "]")

(* lines 83-87: the first candidate json.loads accepts *)
RECURSIVE FirstLoadable(_, _)
FirstLoadable(cands, n) ==
  IF n > Len(cands) THEN [ok |-> FALSE, val |-> None]
  ELSE IF json_loads(cands[n]).ok THEN json_loads(cands[n])
       ELSE FirstLoadable(cands, n + 1)

(* lines 71-73 *)
StripFences(t) == strip(Replace(Replace(t, Fence6, <<>>), Fence3, <<>>))

(* lines 66-93; ok tells whether the value came out of a json.loads *)
CleanParse(rt) ==
  IF rt = <<>> THEN [ok |-> FALSE, val |-> None]
  ELSE LET t == StripFences(rt)
           m == FirstLoadable(Candidates(t), 1)
       IN IF m.ok THEN m ELSE json_loads(strip(t))

clean_json_response(rt) == CleanParse(rt).val

----------------------------------------------------------------------------
(* Inputs of the parser *)

ObjA == JObj(<<<<"a">>>>, <<JNum("1")>>)
ObjB == JObj(<<<<"b">>>>, <<JNum("2")>>)
ObjNested == JObj(<<<<"a">>>>, <<ObjB>>)
ObjList == JObj(<<<<"a">>>>, <<JArr(<<JNum("1")>>)>>)
ObjTwo == JObj(<<<<"a">>, <<"b">>>>, <<JNum("1"), JStr(<<"x">>)>>)
ObjFenceInside == JObj(<<<<"a">>>>, <<JStr(Fence3)>>)

JsonObjects == {JObj(<<>>, <<>>), ObjA, ObjNested, ObjList, ObjTwo, ObjFenceInside}

JsonValues ==
  JsonObjects \cup
  { None, JTrue, JFalse, JNum("1"), JStr(<<"x">>), JStr(<<>>),
    JArr(<<>>), JArr(<<JNum("1"), JNum("2")>>), JArr(<<ObjA>>),
    JArr(<<ObjA, ObjB>>), JArr(<<JArr(<<JNum("1")>>)>>) }

LanguageTags == {<<>>, <<"json">>}

ProseBefore ==
  { <<>>, <<"here", " ", "it", " ", "is", ":", " ">>,
    <<"see", " ", "{", "x", "}", " ">>, <<"list", " ", "[", "1", "]", "\n">> }

ProseAfter ==
  { <<>>, <<" ", "thanks">>, <<" ", "}">>, <<"\n", "[", "done", "]">> }

RawTexts ==
  { <<"not", " ", "json", " ", "at", " ", "all">>, <<"{">>, <<"{", "a", "}">>,
    <<"[", "1", ",", "]">>, <<"1", " ", "apple">> }

NoValue == None

Origins ==
  [kind : {"fenced"}, X : JsonValues, tag : LanguageTags, P : {<<>>}, Q : {<<>>}]
  \cup [kind : {"prose"}, X : JsonObjects, tag : {<<>>}, P : ProseBefore, Q : ProseAfter]
  \cup [kind : {"raw"}, X : {NoValue}, tag : {<<>>}, P : RawTexts, Q : {<<>>}]

(* the text handed to the parser for an input *)
Render(o) ==
  CASE o.kind = "fenced" ->
         Fence3 \o o.tag \o <<"\n">> \o json_dumps(o.X) \o <<"\n">> \o Fence3
    [] o.kind = "prose" -> o.P \o json_dumps(o.X) \o o.Q
    [] o.kind = "raw" -> o.P

----------------------------------------------------------------------------
(* Specification of chunk_text on every bounded text and budget *)

IdleChunk == text = <<>> /\ max_chars = 0 /\ chunks = <<>> /\ cpc = "idle"
IdleParse ==
  /\ origin = [kind |-> "raw", X |-> NoValue, tag |-> <<>>, P |-> <<>>, Q |-> <<>>]
  /\ response_text = <<>>
  /\ parsed = [ok |-> FALSE, val |-> None]
  /\ ppc = "idle"

IdleExtract ==
  /\ gen = [kind |-> "none", text |-> <<>>]
  /\ extracted = [raised |-> FALSE, val |-> None, calls |-> 0]
  /\ epc = "idle"
IdleRun ==
  /\ pc = "idle" /\ srcIdx = 0 /\ srcChunks = <<>> /\ chunkIdx = 0
  /\ all_extracted_data = <<>>
  /\ planGen = [kind |-> "none", text |-> <<>>]
  /\ planner_data = None
  /\ succeeded = <<>> /\ log = <<>>

InitChunk ==
  /\ text \in Texts
  /\ max_chars \in 0..MaxBudget
  /\ chunks = <<>>
  /\ cpc = "call"
  /\ IdleParse /\ IdleExtract /\ IdleRun

ChunkText ==
  /\ cpc = "call"
  /\ chunks' = chunk_text(text, max_chars)
  /\ cpc' = "done"
  /\ UNCHANGED <<text, max_chars, parseVars, extractVars, runVars>>

NextChunk == ChunkText

SpecChunk == InitChunk /\ [][NextChunk]_vars

----------------------------------------------------------------------------
(* Specification of clean_json_response on the parser inputs *)

InitParse ==
  /\ origin \in Origins
  /\ response_text = Render(origin)
  /\ parsed = [ok |-> FALSE, val |-> None]
  /\ ppc = "call"
  /\ IdleChunk /\ IdleExtract /\ IdleRun

CleanJsonResponse ==
  /\ ppc = "call"
  /\ parsed' = CleanParse(response_text)
  /\ ppc' = "done"
  /\ UNCHANGED <<origin, response_text, chunkVars, extractVars, runVars>>

NextParse == CleanJsonResponse

SpecParse == InitParse /\ [][NextParse]_vars

----------------------------------------------------------------------------
(* extract_content_with_prompt.  The generation capability is external:    *)
(* a call returns nothing, returns a response with empty text, raises, or  *)
(* returns a response with some text.  The chunk and the chapter name only *)
(* enter the prompt, so the result depends on the outcome alone.           *)

Outcomes(texts) ==
  [kind : {"none", "empty", "raise"}, text : {<<>>}] \cup [kind : {"text"}, text : texts]

ExtractNoExcept(g) ==
  IF g.kind = "raise" THEN [raised |-> TRUE, val |-> None, calls |-> 1]
  ELSE IF g.kind = "text" /\ g.text # <<>>
       THEN [raised |-> FALSE, val |-> clean_json_response(g.text), calls |-> 1]
       ELSE [raised |-> FALSE, val |-> None, calls |-> 1]

(* lines 129-136: one call of generate_content inside try/except; raised    *)
(* tells whether an exception leaves the method, calls counts the           *)
(* generate_content calls.                                                  *)
extract_content_with_prompt(g) ==
  IF g.kind = "raise" THEN [raised |-> FALSE, val |-> None, calls |-> 1]
  ELSE IF g.kind = "text" /\ g.text # <<>>
       THEN [raised |-> FALSE, val |-> clean_json_response(g.text), calls |-> 1]
       ELSE [raised |-> FALSE, val |-> None, calls |-> 1]

AllResponseTexts == {Render(o) : o \in Origins}

InitExtract ==
  /\ gen \in Outcomes(AllResponseTexts)
  /\ extracted = [raised |-> FALSE, val |-> None, calls |-> 0]
  /\ epc = "call"
  /\ IdleChunk /\ IdleParse /\ IdleRun

ExtractContentWithPrompt ==
  /\ epc = "call"
  /\ extracted' = extract_content_with_prompt(gen)
  /\ epc' = "done"
  /\ UNCHANGED <<gen, chunkVars, parseVars, runVars>>

NextExtract == ExtractContentWithPrompt

SpecExtract == InitExtract /\ [][NextExtract]_vars

----------------------------------------------------------------------------
(* The run: process_all_chapters, then main and save_to_files *)

Key(w) == <<w>>

(* for x in v: x.get(...) -- raises when v is not iterable or an element   *)
(* is not a dict (a str yields its characters, a dict its keys)            *)
IterationRaises(v) ==
  CASE v.k \in {"null", "true", "false", "num"} -> TRUE
    [] v.k = "str" -> v.s # <<>>
    [] v.k = "obj" -> v.keys # <<>>
    [] v.k = "arr" -> \E n \in 1..Len(v.items) : v.items[n].k # "obj"

(* lines 141-147: the projection made before the planner's try block *)
PlannerRaises(json_data) ==
  \E c \in 1..Len(json_data) :
    \/ json_data[c].k # "obj"
    \/ IterationRaises(DictGet(json_data[c], Key("topics"), JArr(<<>>)))

(* lines 236-255: the row loops of create_excel_from_json *)
ExcelRaises(data) ==
  \E c \in 1..Len(data) :
    \/ data[c].k # "obj"
    \/ LET topics == DictGet(data[c], Key("topics"), JArr(<<>>))
       IN \/ IterationRaises(topics)
          \/ \E t \in 1..Len(topics.items) :
               LET subs == DictGet(topics.items[t], Key("sub_topics"), JArr(<<>>))
               IN \/ IterationRaises(subs)
                  \/ \E u \in 1..Len(subs.items) :
                       IterationRaises(
                         DictGet(subs.items[u], Key("content"), JArr(<<>>)))

(* what extract_text_from_pdf may return *)
FetchTexts == {<<>>, <<" ", "\n">>, <<"a">>, <<"a", " ", "b">>}

Topic == JObj(<<Key("topic_name"), Key("sub_topics")>>, <<JStr(<<"x">>), JArr(<<>>)>>)
Fragment ==
  JObj(<<Key("chapter_name"), Key("topics")>>, <<JStr(<<"Sound">>), JArr(<<Topic>>)>>)
TopicsNull == JObj(<<Key("topics")>>, <<None>>)
DayPlan(d) == JObj(<<Key("day")>>, <<JNum(d)>>)

(* responses of the generation capability to an extraction prompt *)
ExtractResponses ==
  { json_dumps(Fragment), <<"{", "}">>, <<"[", "1", "]">>, json_dumps(TopicsNull),
    <<"not", " ", "json", " ", "at", " ", "all">> }

(* responses of the generation capability to the planner prompt *)
PlannerResponses ==
  { json_dumps(JArr(<<DayPlan("1")>>)), json_dumps(JArr(<<DayPlan("1"), DayPlan("2")>>)),
    Fence3 \o <<"json", "\n">> \o json_dumps(JArr(<<DayPlan("1"), DayPlan("2")>>))
      \o <<"\n">> \o Fence3,
    <<"sorry">> }

Init ==
  /\ pc = "fetch" /\ srcIdx = 1 /\ srcChunks = <<>> /\ chunkIdx = 0
  /\ all_extracted_data = <<>>
  /\ planGen = [kind |-> "none", text |-> <<>>]
  /\ planner_data = None
  /\ succeeded = <<>> /\ log = <<>>
  /\ IdleChunk /\ IdleParse /\ IdleExtract

(* the position after a source is finished (line 182: the next url, or return) *)
AfterSource(src) == IF src + 1 > NumSources THEN "returned" ELSE "fetch"

(* lines 186-192: fetch the text of the source, skip it when blank, chunk it *)
ExtractTextFromPdf ==
  /\ pc = "fetch"
  /\ \E t \in FetchTexts :
       LET cs == IF strip(t) = <<>> THEN <<>> ELSE chunk_text(t, RunMaxChars)
       IN /\ log' = Append(log, [op |-> "fetch", src |-> srcIdx, n |-> Len(cs),
                                  blank |-> strip(t) = <<>>])
          /\ IF cs = <<>>
             THEN /\ srcIdx' = srcIdx + 1 /\ pc' = AfterSource(srcIdx)
                  /\ srcChunks' = <<>> /\ chunkIdx' = 0
             ELSE /\ srcIdx' = srcIdx /\ pc' = "extract"
                  /\ srcChunks' = cs /\ chunkIdx' = 1
  /\ UNCHANGED <<all_extracted_data, planGen, planner_data, succeeded>>
  /\ UNCHANGED <<chunkVars, parseVars, extractVars>>

(* lines 195-203: the current chunk goes through the extraction transform *)
ProcessChunk ==
  /\ pc = "extract"
  /\ \E g \in Outcomes(ExtractResponses) :
       LET r == extract_content_with_prompt(g)
           p == CleanParse(g.text)
       IN /\ log' = Append(log, [op |-> "extract", src |-> srcIdx, n |-> chunkIdx,
                                  blank |-> FALSE])
          /\ IF r.raised
             THEN /\ pc' = "crashed"
                  /\ UNCHANGED <<srcIdx, chunkIdx, srcChunks, all_extracted_data, succeeded>>
             ELSE /\ all_extracted_data' =
                       IF Truthy(r.val) THEN Append(all_extracted_data, r.val)
                       ELSE all_extracted_data
                  /\ succeeded' =
                       IF g.kind = "text" /\ p.ok /\ p.val # None
                       THEN Append(succeeded, p.val) ELSE succeeded
                  /\ IF chunkIdx < Len(srcChunks)
                     THEN chunkIdx' = chunkIdx + 1 /\ UNCHANGED <<srcIdx, pc, srcChunks>>
                     ELSE /\ srcIdx' = srcIdx + 1 /\ pc' = AfterSource(srcIdx)
                          /\ srcChunks' = <<>> /\ chunkIdx' = 0
  /\ UNCHANGED <<planGen, planner_data>>
  /\ UNCHANGED <<chunkVars, parseVars, extractVars>>

(* main, lines 304-306, and save_to_files, lines 209-211: nothing to save *)
NoDataExtracted ==
  /\ pc = "returned"
  /\ all_extracted_data = <<>>
  /\ pc' = "done"
  /\ UNCHANGED <<srcIdx, srcChunks, chunkIdx, all_extracted_data, planGen, planner_data,
                 succeeded, log>>
  /\ UNCHANGED <<chunkVars, parseVars, extractVars>>

(* save_to_files, lines 213-223: the JSON dump, then create_excel_from_json *)
CreateExcelFromJson ==
  /\ pc = "returned"
  /\ all_extracted_data # <<>>
  /\ pc' = IF ExcelRaises(all_extracted_data) THEN "crashed" ELSE "planner"
  /\ UNCHANGED <<srcIdx, srcChunks, chunkIdx, all_extracted_data, planGen, planner_data,
                 succeeded, log>>
  /\ UNCHANGED <<chunkVars, parseVars, extractVars>>

(* lines 169-176: the planner's call of generate_content, in its try block *)
planner_try(g) ==
  IF g.kind = "raise" THEN [raised |-> FALSE, val |-> None, calls |-> 1]
  ELSE IF g.kind = "text" /\ g.text # <<>>
       THEN [raised |-> FALSE, val |-> clean_json_response(g.text), calls |-> 1]
       ELSE [raised |-> FALSE, val |-> None, calls |-> 1]

(* create_study_planner, lines 141-176, called at position from *)
CreateStudyPlanner(from) ==
  /\ pc = from
  /\ IF PlannerRaises(all_extracted_data)
     THEN pc' = "crashed" /\ UNCHANGED <<planGen, planner_data, log>>
     ELSE \E g \in Outcomes(PlannerResponses) :
            LET r == planner_try(g)
            IN /\ planGen' = g
               /\ planner_data' = r.val
               /\ log' = Append(log, [op |-> "plan", src |-> 0, n |-> 0,
                                       blank |-> FALSE])
               /\ pc' = IF r.raised THEN "crashed" ELSE "done"
  /\ UNCHANGED <<srcIdx, srcChunks, chunkIdx, all_extracted_data, succeeded>>
  /\ UNCHANGED <<chunkVars, parseVars, extractVars>>

(* the run of main *)
Next ==
  \/ ExtractTextFromPdf
  \/ ProcessChunk
  \/ NoDataExtracted
  \/ CreateExcelFromJson
  \/ CreateStudyPlanner("planner")

Spec == Init /\ [][Next]_vars

(* the orchestrator, then the planner over the aggregate it returned *)
NextCore ==
  \/ ExtractTextFromPdf
  \/ ProcessChunk
  \/ CreateStudyPlanner("returned")

SpecCore == Init /\ [][NextCore]_vars

----------------------------------------------------------------------------
(* Properties of chunk_text *)

(* the tokens of the chunks, in chunk order *)
RECURSIVE TokensOf(_, _)
TokensOf(cs, n) == IF n > Len(cs) THEN <<>> ELSE split(cs[n]) \o TokensOf(cs, n + 1)

(* C1: splitting every returned chunk on whitespace and concatenating the  *)
(* results in chunk order gives exactly the token sequence of the input.   *)
C1_TokensPreserved == cpc = "done" => TokensOf(chunks, 1) = split(text)

C1_Witness ==
  /\ cpc = "done"
  /\ Len(chunks) >= 2
  /\ Len(split(text)) >= 3
  /\ \E n \in 1..Len(chunks) : Len(split(chunks[n])) >= 2

(* C2: every returned chunk is non-empty and either within the budget or   *)
(* one single token that is itself longer than the budget.                 *)
C2_ChunkWithinBudget ==
  cpc = "done" =>
    \A n \in 1..Len(chunks) :
      /\ chunks[n] # <<>>
      /\ \/ Len(chunks[n]) <= max_chars
         \/ split(chunks[n]) = <<chunks[n]>> /\ Len(chunks[n]) > max_chars

C2_Witness ==
  /\ cpc = "done"
  /\ max_chars > 0
  /\ \E n \in 1..Len(chunks) : Len(chunks[n]) > max_chars
  /\ \E n \in 1..Len(chunks) : Len(chunks[n]) <= max_chars

NoOversizedToken == \A n \in 1..Len(split(text)) : Len(split(text)[n]) < max_chars

BetweenOneAndTwoBudgets ==
  /\ cpc = "done"
  /\ NoOversizedToken
  /\ Len(text) > max_chars
  /\ Len(text) < 2 * max_chars

(* tokens separated by single whitespace characters, none leading or trailing *)
SingleSpaced(t) ==
  /\ t # <<>> => ~IsSpace(t[1]) /\ ~IsSpace(t[Len(t)])
  /\ \A n \in 1..(Len(t) - 1) : ~(IsSpace(t[n]) /\ IsSpace(t[n + 1]))

(* C9 as stated: a text without oversized token whose length lies strictly *)
(* between one and two budgets gives exactly 2 chunks, the last non-empty  *)
(* and within the budget.                                                  *)
C9_ExactlyTwoChunks ==
  BetweenOneAndTwoBudgets =>
    /\ Len(chunks) = 2
    /\ chunks[2] # <<>>
    /\ Len(chunks[2]) <= max_chars

(* C9 as amended: such a text gives at most 3 chunks, at least 2 when its  *)
(* tokens are single-spaced, and its last chunk is non-empty and within    *)
(* the budget.                                                             *)
C9_AtMostThreeChunks ==
  BetweenOneAndTwoBudgets =>
    /\ Len(chunks) <= 3
    /\ SingleSpaced(text) => Len(chunks) >= 2
    /\ chunks # <<>> =>
         chunks[Len(chunks)] # <<>> /\ Len(chunks[Len(chunks)]) <= max_chars

C9_Witness == BetweenOneAndTwoBudgets /\ SingleSpaced(text) /\ Len(chunks) = 3

----------------------------------------------------------------------------
(* Properties of clean_json_response *)

(* C3: the JSON text of any value X wrapped in code fences, with or        *)
(* without a language tag, parses back to X.                               *)
C3_FenceRoundTrip ==
  (ppc = "done" /\ origin.kind = "fenced") => parsed.val = origin.X

NoBraces(t) == \A n \in 1..Len(t) : t[n] \notin {"{", "}"}
NoFence(t) == \A n \in 1..(Len(t) - 2) : SubSeq(t, n, n + 2) # Fence3

(* C4 as stated: any prose before and after a valid object leaves the      *)
(* object as the result.                                                   *)
C4_ProseAroundObject ==
  (ppc = "done" /\ origin.kind = "prose") => parsed.val = origin.X

(* C4 as amended: prose holding no brace, around an object whose text      *)
(* holds no triple backtick, leaves the object as the result.              *)
C4_BraceFreeProseAroundObject ==
  ( /\ ppc = "done"
    /\ origin.kind = "prose"
    /\ NoBraces(origin.P)
    /\ NoBraces(origin.Q)
    /\ NoFence(json_dumps(origin.X)) ) => parsed.ok /\ parsed.val = origin.X

C4_Witness ==
  /\ ppc = "done"
  /\ origin.kind = "prose"
  /\ origin.P # <<>> /\ NoBraces(origin.P)
  /\ origin.Q # <<>> /\ NoBraces(origin.Q)
  /\ origin.X = ObjNested
  /\ parsed.val = origin.X

----------------------------------------------------------------------------
(* Properties of extract_content_with_prompt *)

(* no contiguous part of the text, fences removed, is valid JSON *)
NoJsonIn(t) ==
  LET c == StripFences(t)
  IN \A a \in 1..Len(c) : \A b \in a..Len(c) : ~json_loads(SubSeq(c, a, b)).ok

FailedGeneration(g) ==
  g.kind \in {"none", "empty", "raise"} \/ (g.kind = "text" /\ NoJsonIn(g.text))

(* C8: the transform calls the generation capability exactly once, and     *)
(* when that call returns nothing, an empty text, raises, or returns text  *)
(* holding no valid JSON, the result is None and nothing is raised.        *)
C8_ExtractOnceAndAbsence ==
  epc = "done" =>
    /\ extracted.calls = 1
    /\ FailedGeneration(gen) => extracted.val = None /\ ~extracted.raised

C8_Witness ==
  /\ epc = "done"
  /\ gen.kind = "text" /\ gen.text # <<>> /\ NoJsonIn(gen.text)
  /\ extracted.val = None /\ extracted.calls = 1

----------------------------------------------------------------------------
(* Properties of the run *)

(* C5: the aggregate returned by process_all_chapters is exactly the       *)
(* sequence of values parsed from the extraction calls that succeeded, in  *)
(* call order.                                                             *)
C5_AggregateIsSuccesses == pc = "returned" => all_extracted_data = succeeded

(* C6: the orchestrator followed by the planner never ends in an uncaught  *)
(* error, whatever the collaborators return.                               *)
C6_NoFatalError == pc # "crashed"

PlanCalls == Len(SelectSeq(log, LAMBDA e : e.op = "plan"))

(* C7: the planner returns None or an array, and a response that is a JSON *)
(* array of plan objects is returned as that array.                        *)
C7_PlanIsArrayOrAbsent ==
  (pc = "done" /\ PlanCalls = 1) =>
    /\ planner_data.k \in {"null", "arr"}
    /\ ( /\ planGen.kind = "text"
         /\ json_loads(planGen.text).ok
         /\ json_loads(planGen.text).val.k = "arr" )
       => planner_data = json_loads(planGen.text).val

(* the calls a run makes for the fetched sources, in the order claimed *)
RECURSIVE ExpectedCalls(_, _)
ExpectedCalls(fetches, k) ==
  IF k > Len(fetches) THEN <<>>
  ELSE <<[op |-> "fetch", src |-> k, n |-> fetches[k].n, blank |-> fetches[k].blank]>>
       \o [m \in 1..fetches[k].n |-> [op |-> "extract", src |-> k, n |-> m,
                                       blank |-> FALSE]]
       \o ExpectedCalls(fetches, k + 1)

IsPrefix(a, b) == Len(a) <= Len(b) /\ SubSeq(b, 1, Len(a)) = a

(* C10: sources are handled in list order, every chunk of a source is      *)
(* extracted exactly once and in order before the next fetch, a blank      *)
(* source triggers no extraction, and a run that extracted a fragment      *)
(* calls the planner exactly once, after the last extraction.              *)
C10_CallOrder ==
  LET fetches == SelectSeq(log, LAMBDA e : e.op = "fetch")
      others == SelectSeq(log, LAMBDA e : e.op # "plan")
  IN /\ IsPrefix(others, ExpectedCalls(fetches, 1))
     /\ \A k \in 1..Len(fetches) : fetches[k].blank => fetches[k].n = 0
     /\ PlanCalls <= 1
     /\ PlanCalls = 1 =>
          /\ log[Len(log)].op = "plan"
          /\ others = ExpectedCalls(fetches, 1)
          /\ Len(fetches) = NumSources
     /\ (pc \in {"done", "crashed"} /\ all_extracted_data # <<>>) => PlanCalls = 1

====
